---- MODULE Spec2Model ----
(***************************************************************************)
(* A model of pytermgui/parser.py: the markup tokenizer, the ANSI          *)
(* tokenizer, the colour resolver, Token.to_name / Token.to_sequence and   *)
(* the converters markup_to_ansi and ansi_to_markup.                       *)
(*                                                                         *)
(* A Python str is a sequence of one-character strings; the character      *)
(* 0x1b is written ESC.  Offsets (position, start, end) are Python's       *)
(* 0-based offsets.  An Optional value is a set: None is {} and a present  *)
(* value x is {x}.                                                         *)
(***************************************************************************)
EXTENDS Integers, Sequences, FiniteSets, TLC

VARIABLES
    op,              \* the public function that is running
    chain,           \* 1: the call on the input, 2 and 3: the round trip's calls
    input,           \* the argument of the first call
    text,            \* the string the running tokenizer scans
    pc,              \* "start", "scan", "fold", "returned", "raised", "call"
    cursor,          \* where finditer resumes: the end of the last match
    position,        \* the tokenizer's local `position`
    span,            \* the tokenizer's locals (start, end); None while unbound
    previous,        \* tokenize_ansi's local `previous`
    tokens,          \* the tokens yielded so far
    consumed,        \* how many of them the converter's loop has folded
    out,             \* the converter's accumulator (ansi / markup)
    in_attr,         \* ansi_to_markup's local
    current_bracket, \* ansi_to_markup's local
    err,             \* the exception that ended the call, "none" otherwise
    first,           \* round trip: the tokens of the first call
    tag,             \* colour resolver: the tag given
    result           \* colour resolver: what it returned

vars == <<op, chain, input, text, pc, cursor, position, span, previous, tokens,
          consumed, out, in_attr, current_bracket, err, first, tag, result>>

----------------------------------------------------------------------------
(* Optional values *)

None == {}

Some(x) == {x}

Get(o) == CHOOSE x \in o : TRUE

----------------------------------------------------------------------------
(* Python str operations, on sequences of characters *)

ESC == "ESC"

NL == "\n"

Min(a, b) == IF a < b THEN a ELSE b

Max(a, b) == IF a < b THEN b ELSE a

\* s[a:b], clamped as Python clamps a slice
Slice(s, a, b) == SubSeq(s, Max(a, 0) + 1, Min(b, Len(s)))

\* s[a:]
SliceFrom(s, a) == Slice(s, a, Len(s))

RECURSIVE Cat(_)
Cat(ss) == IF ss = <<>> THEN <<>> ELSE Head(ss) \o Cat(Tail(ss))

startswith(s, p) == Len(p) <= Len(s) /\ SubSeq(s, 1, Len(p)) = p

endswith(s, p) == Len(p) <= Len(s) /\ SubSeq(s, Len(s) - Len(p) + 1, Len(s)) = p

\* s.count(c) for a one-character c
count(s, c) == Cardinality({i \in 1..Len(s) : s[i] = c})

\* sep.join(parts)
RECURSIVE join(_, _)
join(sep, parts) ==
    IF parts = <<>> THEN <<>>
    ELSE IF Len(parts) = 1 THEN parts[1]
    ELSE parts[1] \o sep \o join(sep, Tail(parts))

\* s.split(c) for a one-character separator c: empty fields are kept
RECURSIVE split(_, _)
split(s, c) ==
    IF \A i \in 1..Len(s) : s[i] # c THEN <<s>>
    ELSE LET i == CHOOSE k \in 1..Len(s) : s[k] = c /\ \A j \in 1..(k-1) : s[j] # c
         IN  <<SubSeq(s, 1, i - 1)>> \o split(SubSeq(s, i + 1, Len(s)), c)

Whitespace == {" ", "\t", NL}

\* s.split(): split on runs of whitespace, no empty words
RECURSIVE split_ws(_)
split_ws(s) ==
    IF s = <<>> THEN <<>>
    ELSE IF s[1] \in Whitespace THEN split_ws(Tail(s))
    ELSE LET stops == {k \in 1..Len(s) : s[k] \in Whitespace}
             e == IF stops = {} THEN Len(s) + 1
                  ELSE CHOOSE k \in stops : \A j \in stops : k <= j
         IN  <<SubSeq(s, 1, e - 1)>> \o split_ws(SubSeq(s, e, Len(s)))

\* s.lstrip(c)
RECURSIVE lstrip(_, _)
lstrip(s, c) == IF s # <<>> /\ s[1] = c THEN lstrip(Tail(s), c) ELSE s

DigitChars == <<"0", "1", "2", "3", "4", "5", "6", "7", "8", "9">>

Digits == {DigitChars[i] : i \in 1..10}

DigitVal(c) == (CHOOSE i \in 1..10 : DigitChars[i] = c) - 1

\* s.isdigit(): non-empty and every character a digit
isdigit(s) == s # <<>> /\ \A i \in 1..Len(s) : s[i] \in Digits

\* int(s) for a string of digits
RECURSIVE int(_)
int(s) == IF s = <<>> THEN 0 ELSE int(SubSeq(s, 1, Len(s) - 1)) * 10 + DigitVal(s[Len(s)])

\* str(n) for n >= 0
RECURSIVE str(_)
str(n) == IF n < 10 THEN <<DigitChars[n + 1]>> ELSE str(n \div 10) \o <<DigitChars[(n % 10) + 1]>>

----------------------------------------------------------------------------
(* The name tables *)

NAMES ==
    << <<"/">>,
       <<"b", "o", "l", "d">>,
       <<"d", "i", "m">>,
       <<"i", "t", "a", "l", "i", "c">>,
       <<"u", "n", "d", "e", "r", "l", "i", "n", "e">>,
       <<"b", "l", "i", "n", "k">>,
       <<"b", "l", "i", "n", "k", "2">>,
       <<"i", "n", "v", "e", "r", "s", "e">>,
       <<"i", "n", "v", "i", "s", "i", "b", "l", "e">>,
       <<"s", "t", "r", "i", "k", "e", "t", "h", "r", "o", "u", "g", "h">> >>

\* the dict's items, in the dict's order
UNSET_MAP ==
    << << <<"/", "b", "o", "l", "d">>, <<"2", "2">> >>,
       << <<"/", "d", "i", "m">>, <<"2", "2">> >>,
       << <<"/", "i", "t", "a", "l", "i", "c">>, <<"2", "3">> >>,
       << <<"/", "u", "n", "d", "e", "r", "l", "i", "n", "e">>, <<"2", "4">> >>,
       << <<"/", "b", "l", "i", "n", "k">>, <<"2", "5">> >>,
       << <<"/", "b", "l", "i", "n", "k", "2">>, <<"2", "6">> >>,
       << <<"/", "i", "n", "v", "e", "r", "s", "e">>, <<"2", "7">> >>,
       << <<"/", "i", "n", "v", "i", "s", "i", "b", "l", "e">>, <<"2", "8">> >>,
       << <<"/", "s", "t", "r", "i", "k", "e", "t", "h", "r", "o", "u", "g", "h">>, <<"2", "9">> >>,
       << <<"/", "f", "g">>, <<"3", "9">> >>,
       << <<"/", "b", "g">>, <<"4", "9">> >> >>

\* foreground.names: the items of the named-colour table, name then colour code
foreground_names ==
    << << <<"b", "l", "a", "c", "k">>, 0 >>,
       << <<"r", "e", "d">>, 1 >>,
       << <<"g", "r", "e", "e", "n">>, 2 >>,
       << <<"y", "e", "l", "l", "o", "w">>, 3 >>,
       << <<"b", "l", "u", "e">>, 4 >>,
       << <<"m", "a", "g", "e", "n", "t", "a">>, 5 >>,
       << <<"c", "y", "a", "n">>, 6 >>,
       << <<"w", "h", "i", "t", "e">>, 7 >> >>

\* reset(): the full-reset escape sequence
reset == <<ESC, "[", "0", "m">>

\* key in table / the first item with that key, for a sequence of <<key, value>>
HasKey(table, key) == \E i \in 1..Len(table) : table[i][1] = key

Lookup(table, key) ==
    table[CHOOSE i \in 1..Len(table) : table[i][1] = key /\ \A j \in 1..(i-1) : table[j][1] # key][2]

HasValue(table, value) == \E i \in 1..Len(table) : table[i][2] = value

\* the first key, in the table's order, that maps to value
KeyOf(table, value) ==
    table[CHOOSE i \in 1..Len(table) : table[i][2] = value /\ \A j \in 1..(i-1) : table[j][2] # value][1]

\* tag in NAMES, NAMES.index(tag)
InNAMES(t) == \E i \in 1..Len(NAMES) : NAMES[i] = t

NAMES_index(t) == (CHOOSE i \in 1..Len(NAMES) : NAMES[i] = t) - 1

----------------------------------------------------------------------------
(* The colour resolver.  A call returns [err, val]: err names the          *)
(* exception raised ("none" when it returns) and val is the Optional       *)
(* value returned.                                                         *)

Returns(v) == [err |-> "none", val |-> v]

Raises(e) == [err |-> e, val |-> None]

HexLetters == {"a", "b", "c", "d", "e", "f"}

HexVal(c) == IF c \in Digits THEN DigitVal(c)
             ELSE CHOOSE v \in 10..15 : <<"a", "b", "c", "d", "e", "f">>[v - 9] = c

\* "#rrggbb"
IsHexTriplet(t) ==
    Len(t) = 7 /\ t[1] = "#" /\ \A i \in 2..7 : t[i] \in Digits \cup HexLetters

\* foreground.translate_hex(tag), for a "#rrggbb" tag: (r, g, b)
translate_hex(t) ==
    << HexVal(t[2]) * 16 + HexVal(t[3]),
       HexVal(t[4]) * 16 + HexVal(t[5]),
       HexVal(t[6]) * 16 + HexVal(t[7]) >>

\* the selector as the design text words it: fewer than two ;-separated fields
color_pre_fewer_than_two_fields(t, hexcolor) ==
    IF Len(split(t, ";")) < 2 /\ ~hexcolor THEN <<"5", ";">> ELSE <<"2", ";">>

\* "5;" if tag.count(";") < 2 and not hexcolor else "2;"
color_pre(t, hexcolor) ==
    IF count(t, ";") < 2 /\ ~hexcolor THEN <<"5", ";">> ELSE <<"2", ";">>

_handle_color(t0) ==
    IF ~ \A i \in 1..Len(t0) : t0[i] \in Digits \cup {"#", ";", "@"} \cup HexLetters
    THEN Returns(None)
    ELSE LET background == startswith(t0, <<"@">>)
             pretext == IF background THEN <<"4", "8", ";">> ELSE <<"3", "8", ";">>
             t == IF background THEN SliceFrom(t0, 1) ELSE t0
             hexcolor == startswith(t, <<"#">>)
             pre == color_pre(t, hexcolor)
         IN  IF hexcolor
             THEN IF IsHexTriplet(t)
                  THEN LET rgb == translate_hex(t)
                       IN  Returns(Some(<<pretext \o pre \o
                                 join(<<";">>, <<str(rgb[1]), str(rgb[2]), str(rgb[3])>>),
                                 background>>))
                  ELSE Raises("ValueError")
             ELSE Returns(Some(<<pretext \o pre \o t, background>>))

_handle_named_color(t0) ==
    IF ~ HasKey(foreground_names, lstrip(t0, "@"))
    THEN Returns(None)
    ELSE LET at == startswith(t0, <<"@">>)
             t == IF at THEN SliceFrom(t0, 1) ELSE t0
             background == IF at THEN <<"@">> ELSE <<>>
         IN  IF ~ HasKey(foreground_names, t)
             THEN Raises("KeyError")
             ELSE _handle_color(background \o str(Lookup(foreground_names, t)))

----------------------------------------------------------------------------
(* Token *)

Token(start, end, plain, code, attribute) ==
    [start |-> start, end |-> end, plain |-> plain, code |-> code, attribute |-> attribute]

\* int(s): the strings of this model hold no sign, blank or underscore, so
\* int accepts exactly the strings of digits
CanInt(s) == isdigit(s)

to_name(token) ==
    IF token.plain # None THEN Returns(token.plain)
    ELSE IF token.code = None THEN Raises("AssertionError")
    ELSE LET code == Get(token.code)
         IN  IF isdigit(code)
             THEN IF HasValue(UNSET_MAP, code) THEN Returns(Some(KeyOf(UNSET_MAP, code)))
                  ELSE IF int(code) < Len(NAMES) THEN Returns(Some(NAMES[int(code) + 1]))
                  ELSE Raises("IndexError")
             ELSE LET numbers == split(code, ";")
                      o == IF numbers[1] = <<"4", "8">> THEN <<"@">> ELSE <<>>
                  IN  IF Len(numbers) < 3 THEN Raises("SyntaxError")
                      ELSE IF ~ CanInt(numbers[3]) THEN Raises("ValueError")
                      ELSE IF HasValue(foreground_names, int(numbers[3]))
                           THEN Returns(Some(o \o KeyOf(foreground_names, int(numbers[3]))))
                      ELSE Returns(Some(o \o join(<<";">>, SubSeq(numbers, 3, Len(numbers)))))

to_sequence(token) ==
    IF token.code = None
    THEN IF token.plain = None THEN Raises("AssertionError") ELSE Returns(token.plain)
    ELSE Returns(Some(<<ESC, "[">> \o Get(token.code) \o <<"m">>))

----------------------------------------------------------------------------
(* The two patterns.  A match is [start, end, ...] with 0-based offsets;   *)
(* finditer yields the leftmost match at or after the previous match's     *)
(* end.  `.` matches every character but a newline, and `.*?` stops at the *)
(* first place the rest of the pattern matches.                            *)

CharAt(s, i) == s[i + 1]

Lower ==
    {"a", "b", "c", "d", "e", "f", "g", "h", "i", "j", "k", "l", "m",
     "n", "o", "p", "q", "r", "s", "t", "u", "v", "w", "x", "y", "z"}

\* the class [a-z0-9!#@\/]
TagStart == Lower \cup Digits \cup {"!", "#", "@", "/"}

\* the least member of a non-empty set of integers
Least(S) == CHOOSE x \in S : \A y \in S : x <= y

\* the length of the run of backslashes that starts at offset i
RECURSIVE BackslashRun(_, _)
BackslashRun(s, i) ==
    IF i < Len(s) /\ CharAt(s, i) = "\\" THEN 1 + BackslashRun(s, i + 1) ELSE 0

\* RE_TAGS matched at offset i: (\\*) \[ ([a-z0-9!#@\/].*?) \]
TagMatchAt(s, i) ==
    LET k == BackslashRun(s, i)
        b == i + k
    IN  IF b + 1 < Len(s) /\ CharAt(s, b) = "[" /\ CharAt(s, b + 1) \in TagStart
        THEN LET stops == {j \in (b + 2)..(Len(s) - 1) : CharAt(s, j) \in {"]", NL}}
             IN  IF stops # {} /\ CharAt(s, Least(stops)) = "]"
                 THEN Some([start |-> i, end |-> Least(stops) + 1, escapes |-> k,
                            tag_text |-> Slice(s, b + 1, Least(stops))])
                 ELSE None
        ELSE None

\* RE_ANSI matched at offset i: (?:\x1b\[(.*?)m)|(?:\x1b\](.*?)\x1b\\)
\* sgr is the first group: None when the second alternative matched
AnsiMatchAt(s, i) ==
    IF i + 1 < Len(s) /\ CharAt(s, i) = ESC /\ CharAt(s, i + 1) = "["
    THEN LET stops == {j \in (i + 2)..(Len(s) - 1) : CharAt(s, j) \in {"m", NL}}
         IN  IF stops # {} /\ CharAt(s, Least(stops)) = "m"
             THEN Some([start |-> i, end |-> Least(stops) + 1,
                        sgr |-> Some(Slice(s, i + 2, Least(stops)))])
             ELSE None
    ELSE IF i + 1 < Len(s) /\ CharAt(s, i) = ESC /\ CharAt(s, i + 1) = "]"
    THEN LET stops == {j \in (i + 2)..(Len(s) - 2) :
                          \/ CharAt(s, j) = NL
                          \/ CharAt(s, j) = ESC /\ CharAt(s, j + 1) = "\\"}
         IN  IF stops # {} /\ CharAt(s, Least(stops)) = ESC
             THEN Some([start |-> i, end |-> Least(stops) + 2, sgr |-> None])
             ELSE None
    ELSE None

\* the next match finditer yields, None when the iteration ends
NextTag(s, from) ==
    LET at == {i \in from..(Len(s) - 1) : TagMatchAt(s, i) # None}
    IN  IF at = {} THEN None ELSE TagMatchAt(s, Least(at))

NextAnsi(s, from) ==
    LET at == {i \in from..(Len(s) - 1) : AnsiMatchAt(s, i) # None}
    IN  IF at = {} THEN None ELSE AnsiMatchAt(s, Least(at))

----------------------------------------------------------------------------
(* tokenize_markup: the body of its loop for one match *)

\* one tag of a bracket group: [err, toks]
ResolveTag(t, start, end) ==
    IF InNAMES(t)
    THEN [err |-> "none",
          toks |-> <<Token(start, end, None, Some(str(NAMES_index(t))),
                           IF t = <<"/">> THEN "CLEAR" ELSE "STYLE")>>]
    ELSE IF HasKey(UNSET_MAP, t)
    THEN [err |-> "none",
          toks |-> <<Token(start, end, None, Some(Lookup(UNSET_MAP, t)), "CLEAR")>>]
    ELSE LET named == _handle_named_color(t)
         IN  IF named.err # "none" THEN [err |-> named.err, toks |-> <<>>]
             ELSE IF named.val # None
             THEN [err |-> "none",
                   toks |-> <<Token(start, end, None, Some(Get(named.val)[1]),
                                    IF Get(named.val)[2] THEN "BACKGROUND_COLOR" ELSE "COLOR")>>]
             ELSE LET color == _handle_color(t)
                  IN  IF color.err # "none" THEN [err |-> color.err, toks |-> <<>>]
                      ELSE IF color.val # None
                      THEN [err |-> "none",
                            toks |-> <<Token(start, end, None, Some(Get(color.val)[1]),
                                             IF Get(color.val)[2] THEN "BACKGROUND_COLOR" ELSE "COLOR")>>]
                      ELSE [err |-> "SyntaxError", toks |-> <<>>]

\* for tag in tag_text.split(): the tokens yielded until a tag raises
RECURSIVE ResolveTags(_, _, _)
ResolveTags(words, start, end) ==
    IF words = <<>> THEN [err |-> "none", toks |-> <<>>]
    ELSE LET r == ResolveTag(Head(words), start, end)
         IN  IF r.err # "none" THEN r
             ELSE LET rest == ResolveTags(Tail(words), start, end)
                  IN  [err |-> rest.err, toks |-> r.toks \o rest.toks]

\* n * "\\"
Backslashes(n) == [i \in 1..n |-> "\\"]

\* the loop body for match m: [err, toks, start]
MarkupLoopBody(s, pos, m) ==
    LET gap == IF m.start > pos
               THEN <<Token(m.start, m.end, Some(Slice(s, pos, m.start)), None, "None")>>
               ELSE <<>>
        backslashes == m.escapes \div 2
        escaped == m.escapes % 2
        kept == IF backslashes > 0
                THEN <<Token(m.start, m.end, Some(Backslashes(backslashes)), None, "None")>>
                ELSE <<>>
        start == IF backslashes > 0 THEN m.start + backslashes * 2 ELSE m.start
    IN  IF escaped > 0
        THEN [err |-> "none", start |-> start,
              toks |-> gap \o kept \o
                       <<Token(start, m.end, Some(SliceFrom(m.tag_text, m.escapes)), None, "None")>>]
        ELSE LET r == ResolveTags(split_ws(m.tag_text), start, m.end)
             IN  [err |-> r.err, start |-> start, toks |-> gap \o kept \o r.toks]

IsMarkupOp == op \in {"markup_to_ansi", "tokenize_markup"}

tokenize_markup_match ==
    /\ IsMarkupOp /\ pc = "scan"
    /\ NextTag(text, cursor) # None
    /\ LET m == Get(NextTag(text, cursor))
           r == MarkupLoopBody(text, position, m)
       IN  /\ tokens' = tokens \o r.toks
           /\ span' = Some(<<r.start, m.end>>)
           /\ cursor' = m.end
           /\ IF r.err = "none"
              THEN position' = m.end /\ UNCHANGED <<pc, err>>
              ELSE pc' = "raised" /\ err' = r.err /\ UNCHANGED position
    /\ UNCHANGED <<op, chain, input, text, previous, consumed, out, in_attr,
                   current_bracket, first, tag, result>>

\* after the loop: the text behind the last match.  `start` and `end` are
\* bound by the loop's first iteration only
tokenize_markup_tail ==
    /\ IsMarkupOp /\ pc = "scan"
    /\ NextTag(text, cursor) = None
    /\ IF position < Len(text)
       THEN IF span = None
            THEN pc' = "raised" /\ err' = "UnboundLocalError" /\ UNCHANGED tokens
            ELSE /\ tokens' = Append(tokens, Token(Get(span)[1], Get(span)[2],
                                                   Some(SliceFrom(text, position)), None, "None"))
                 /\ pc' = (IF op = "markup_to_ansi" THEN "fold" ELSE "returned")
                 /\ UNCHANGED err
       ELSE /\ pc' = (IF op = "markup_to_ansi" THEN "fold" ELSE "returned")
            /\ UNCHANGED <<tokens, err>>
    /\ UNCHANGED <<op, chain, input, text, cursor, position, span, previous, consumed,
                   out, in_attr, current_bracket, first, tag, result>>

----------------------------------------------------------------------------
(* markup_to_ansi *)

\* the converter stopped adding the reset
append_reset_never(ansi) == ansi

\* if not ansi.endswith(reset()): ansi += reset()
append_reset(ansi) == IF endswith(ansi, reset) THEN ansi ELSE ansi \o reset

markup_to_ansi_step ==
    /\ op = "markup_to_ansi" /\ pc = "fold"
    /\ consumed < Len(tokens)
    /\ LET r == to_sequence(tokens[consumed + 1])
       IN  IF r.err = "none"
           THEN out' = out \o Get(r.val) /\ consumed' = consumed + 1 /\ UNCHANGED <<pc, err>>
           ELSE pc' = "raised" /\ err' = r.err /\ UNCHANGED <<out, consumed>>
    /\ UNCHANGED <<op, chain, input, text, cursor, position, span, previous, tokens,
                   in_attr, current_bracket, first, tag, result>>

markup_to_ansi_return ==
    /\ op = "markup_to_ansi" /\ pc = "fold"
    /\ consumed = Len(tokens)
    /\ out' = append_reset(out)
    /\ pc' = "returned"
    /\ UNCHANGED <<op, chain, input, text, cursor, position, span, previous, tokens,
                   consumed, in_attr, current_bracket, err, first, tag, result>>

----------------------------------------------------------------------------
(* tokenize_ansi *)

tokenize_ansi_begin ==
    /\ op = "ansi_to_markup" /\ pc = "start"
    /\ text' = (IF endswith(text, reset) THEN text ELSE text \o <<ESC, "[", "0", "m">>)
    /\ position' = 0 /\ span' = Some(<<0, 0>>) /\ previous' = None /\ cursor' = 0
    /\ pc' = "scan"
    /\ UNCHANGED <<op, chain, input, tokens, consumed, out, in_attr, current_bracket,
                   err, first, tag, result>>

\* the duplicate check dropped: every sequence is yielded
should_yield_always(prev, sgr) == TRUE

\* previous is None or not previous.code == sgr
should_yield(prev, sgr) == prev = None \/ Get(prev).code # sgr

tokenize_ansi_match ==
    /\ op = "ansi_to_markup" /\ pc = "scan"
    /\ NextAnsi(text, cursor) # None
    /\ LET m == Get(NextAnsi(text, cursor))
           gap == Token(m.start, m.end, Some(Slice(text, position, m.start)), None, "None")
           prev == IF m.start > position THEN Some(gap) ELSE previous
           token == Token(m.start, m.end, None, m.sgr, "None")
           yielded == should_yield(prev, m.sgr)
       IN  /\ tokens' = tokens \o (IF m.start > position THEN <<gap>> ELSE <<>>)
                               \o (IF yielded THEN <<token>> ELSE <<>>)
           /\ previous' = (IF yielded THEN Some(token) ELSE prev)
           /\ span' = Some(<<m.start, m.end>>)
           /\ position' = m.end
           /\ cursor' = m.end
    /\ UNCHANGED <<op, chain, input, text, pc, consumed, out, in_attr, current_bracket,
                   err, first, tag, result>>

tokenize_ansi_tail ==
    /\ op = "ansi_to_markup" /\ pc = "scan"
    /\ NextAnsi(text, cursor) = None
    /\ tokens' = (IF position < Len(text)
                  THEN Append(tokens, Token(Get(span)[1], Get(span)[2],
                                            Some(SliceFrom(text, position)), None, "None"))
                  ELSE tokens)
    /\ pc' = "fold"
    /\ UNCHANGED <<op, chain, input, text, cursor, position, span, previous, consumed,
                   out, in_attr, current_bracket, err, first, tag, result>>

----------------------------------------------------------------------------
(* ansi_to_markup *)

\* "[" + " ".join(current_bracket) + "]"
Bracket(names) == <<"[">> \o join(<<" ">>, names) \o <<"]">>

ansi_to_markup_step ==
    /\ op = "ansi_to_markup" /\ pc = "fold"
    /\ consumed < Len(tokens)
    /\ LET token == tokens[consumed + 1]
           r == to_name(token)
       IN  IF r.err # "none"
           THEN /\ pc' = "raised" /\ err' = r.err
                /\ UNCHANGED <<out, consumed, in_attr, current_bracket>>
           ELSE /\ consumed' = consumed + 1
                /\ UNCHANGED <<pc, err>>
                /\ IF token.code # None
                   THEN /\ in_attr' = TRUE
                        /\ current_bracket' = Append(current_bracket, Get(r.val))
                        /\ UNCHANGED out
                   ELSE /\ out' = (IF in_attr THEN out \o Bracket(current_bracket) ELSE out)
                                  \o Get(r.val)
                        /\ current_bracket' = (IF in_attr THEN <<>> ELSE current_bracket)
                        /\ UNCHANGED in_attr
    /\ UNCHANGED <<op, chain, input, text, cursor, position, span, previous, tokens,
                   first, tag, result>>

ansi_to_markup_return ==
    /\ op = "ansi_to_markup" /\ pc = "fold"
    /\ consumed = Len(tokens)
    /\ out' = out \o Bracket(current_bracket)
    /\ pc' = "returned"
    /\ UNCHANGED <<op, chain, input, text, cursor, position, span, previous, tokens,
                   consumed, in_attr, current_bracket, err, first, tag, result>>

----------------------------------------------------------------------------
(* The round trip of the module's example:                                 *)
(*     ansi = markup_to_ansi(m); markup = ansi_to_markup(ansi)             *)
(* and the tokens of the markup it gives back.                             *)

round_trip_ansi_to_markup ==
    /\ chain = 1 /\ op = "markup_to_ansi" /\ pc = "returned"
    /\ chain' = 2 /\ op' = "ansi_to_markup" /\ pc' = "start"
    /\ text' = out
    /\ first' = Some(tokens)
    /\ tokens' = <<>> /\ consumed' = 0 /\ out' = <<>>
    /\ in_attr' = FALSE /\ current_bracket' = <<>>
    /\ UNCHANGED <<input, cursor, position, span, previous, err, tag, result>>

round_trip_tokenize_markup ==
    /\ chain = 2 /\ op = "ansi_to_markup" /\ pc = "returned"
    /\ chain' = 3 /\ op' = "tokenize_markup" /\ pc' = "scan"
    /\ text' = out
    /\ cursor' = 0 /\ position' = 0 /\ span' = None
    /\ tokens' = <<>>
    /\ UNCHANGED <<input, previous, consumed, out, in_attr, current_bracket, err,
                   first, tag, result>>

----------------------------------------------------------------------------
(* The colour resolver called on its own *)

handle_color_call ==
    /\ op = "_handle_color" /\ pc = "call"
    /\ result' = _handle_color(tag)
    /\ pc' = "returned"
    /\ UNCHANGED <<op, chain, input, text, cursor, position, span, previous, tokens,
                   consumed, out, in_attr, current_bracket, err, first, tag>>

----------------------------------------------------------------------------
(* The inputs *)

MaxItems == 3

MaxAnsiItems == 3

MaxFields == 3

\* every string made of at most n of the pieces
Strings(pieces, n) == {Cat(ps) : ps \in UNION {[1..k -> pieces] : k \in 0..n}}

MarkupPieces ==
    { <<"h", "i">>,
      <<"h", "e", "l", "l", "o">>,
      <<"\\">>,
      <<"[", "b", "o", "l", "d", "]">>,
      <<"[", "b", "o", "l", "d", " ", "b", "o", "l", "d", " ", "b", "o", "l", "d", "]">>,
      <<"[", "/", "]">>,
      <<"[", "/", "d", "i", "m", "]">>,
      <<"[", "1", ";", "2", ";", "3", "]">>,
      <<"[", "@", "@", "r", "e", "d", "]">>,
      <<"[", "n", "o", "p", "e", "]">> }

AnsiPieces ==
    { <<"h", "e", "l", "l", "o">>,
      <<ESC, "[", "1", "m">>,
      <<ESC, "[", "0", "m">>,
      <<ESC, "[", "3", "8", ";", "5", ";", "1", "4", "1", "m">>,
      <<ESC, "[", "3", "0", "m">>,
      <<ESC, "[", "3", "8", ";", "5", ";", "x", "m">>,
      <<ESC, "]", "0", ";", "t", ESC, "\\">> }

ColorFields == { <<"1", "4", "1">>, <<"6", "0">>, <<"1", "0", "0">>, <<"2", "0", "0">> }

ColorBodies ==
    {join(<<";">>, fs) : fs \in UNION {[1..k -> ColorFields] : k \in 1..MaxFields}}
    \cup { <<"#", "f", "f", "0", "0", "0", "0">>, <<"#", "0", "a", "1", "4", "1", "e">>,
           <<"b", "o", "l", "d">>, <<"r", "e", "d">> }

ColorTags == ColorBodies \cup {<<"@">> \o b : b \in ColorBodies} \cup {<<"@", "@">> \o b : b \in ColorBodies}

Idle ==
    /\ cursor = 0 /\ position = 0 /\ span = None /\ previous = None
    /\ tokens = <<>> /\ consumed = 0 /\ out = <<>>
    /\ in_attr = FALSE /\ current_bracket = <<>>
    /\ err = "none" /\ first = None
    /\ result = Returns(None)

InitMarkup ==
    /\ op = "markup_to_ansi" /\ chain = 1 /\ pc = "scan"
    /\ input \in Strings(MarkupPieces, MaxItems)
    /\ text = input
    /\ tag = <<>>
    /\ Idle

InitAnsi ==
    /\ op = "ansi_to_markup" /\ chain = 1 /\ pc = "start"
    /\ input \in Strings(AnsiPieces, MaxAnsiItems)
    /\ text = input
    /\ tag = <<>>
    /\ Idle

InitColor ==
    /\ op = "_handle_color" /\ chain = 1 /\ pc = "call"
    /\ tag \in ColorTags
    /\ input = <<>> /\ text = <<>>
    /\ Idle

Init == InitMarkup \/ InitAnsi

Next ==
    \/ tokenize_markup_match
    \/ tokenize_markup_tail
    \/ markup_to_ansi_step
    \/ markup_to_ansi_return
    \/ tokenize_ansi_begin
    \/ tokenize_ansi_match
    \/ tokenize_ansi_tail
    \/ ansi_to_markup_step
    \/ ansi_to_markup_return
    \/ round_trip_ansi_to_markup
    \/ round_trip_tokenize_markup

Spec == Init /\ [][Next]_vars

NextColor == handle_color_call

SpecColor == InitColor /\ [][NextColor]_vars

\* markup_to_ansi alone
NextMarkup ==
    \/ tokenize_markup_match
    \/ tokenize_markup_tail
    \/ markup_to_ansi_step
    \/ markup_to_ansi_return

SpecMarkup == InitMarkup /\ [][NextMarkup]_vars

\* ansi_to_markup alone
NextAnsiToMarkup ==
    \/ tokenize_ansi_begin
    \/ tokenize_ansi_match
    \/ tokenize_ansi_tail
    \/ ansi_to_markup_step
    \/ ansi_to_markup_return

SpecAnsi == InitAnsi /\ [][NextAnsiToMarkup]_vars

----------------------------------------------------------------------------
(* What the properties below speak of *)

\* a token stream as its texts and codes
Proj(toks) == [i \in 1..Len(toks) |-> <<toks[i].plain, toks[i].code>>]

PlainOf(s) == <<Some(s), None>>

CodeOf(s) == <<None, Some(s)>>

\* tokenize_markup(input) ran to its end: tokens is its whole stream
MarkupTokenized == op = "markup_to_ansi" /\ chain = 1 /\ pc \in {"fold", "returned"}

\* the behaviour began with markup_to_ansi(input)
FromMarkup == op = "markup_to_ansi" \/ chain > 1

\* tokenize_ansi(input) ran to its end
AnsiTokenized == op = "ansi_to_markup" /\ chain = 1 /\ pc \in {"fold", "returned", "raised"}

NoAdjacentEqualCodes(toks) ==
    \A i \in 1..(Len(toks) - 1) :
        ~ (toks[i].code # None /\ toks[i + 1].code # None /\ toks[i].code = toks[i + 1].code)

\* every bracket group of m, in order
RECURSIVE Groups(_, _)
Groups(m, from) ==
    IF NextTag(m, from) = None THEN <<>>
    ELSE <<Get(NextTag(m, from))>> \o Groups(m, Get(NextTag(m, from)).end)

IsByte(s) == isdigit(s) /\ int(s) <= 255

\* a style name, an unset name, or a colour (named, 8-bit index, r;g;b), a colour
\* with one optional @ before it
SingleTag(t) ==
    \/ InNAMES(t)
    \/ HasKey(UNSET_MAP, t)
    \/ LET body == IF startswith(t, <<"@">>) THEN Tail(t) ELSE t
       IN  \/ HasKey(foreground_names, body)
           \/ IsByte(body)
           \/ Len(split(body, ";")) = 3 /\ \A i \in 1..3 : IsByte(split(body, ";")[i])

\* well-formed markup with at least one bracket group: every group unescaped and
\* of a single tag, no tag twice, no bracket, backslash or escape in the text
WellFormed(m) ==
    LET gs == Groups(m, 0)
        inside == {i \in 0..(Len(m) - 1) : \E k \in 1..Len(gs) : gs[k].start <= i /\ i < gs[k].end}
    IN  /\ gs # <<>>
        /\ \A k \in 1..Len(gs) : gs[k].escapes = 0 /\ SingleTag(gs[k].tag_text)
        /\ \A k, l \in 1..Len(gs) : k # l => gs[k].tag_text # gs[l].tag_text
        /\ \A i \in 0..(Len(m) - 1) : i \notin inside => CharAt(m, i) \notin {"[", "]", "\\", ESC}

----------------------------------------------------------------------------
(* C1: for well-formed markup m of single, unrepeated tags,                *)
(* ansi_to_markup(markup_to_ansi(m)) tokenizes to the texts and codes of   *)
(* m, up to the trailing reset markup_to_ansi appends.  (Stated for m      *)
(* with at least one bracket group.)                                       *)
C1_RoundTrip ==
    FromMarkup /\ WellFormed(input) =>
        /\ pc # "raised"
        /\ chain = 3 /\ pc = "returned" =>
              \/ Proj(tokens) = Proj(Get(first))
              \/ Proj(tokens) = Proj(Get(first)) \o <<CodeOf(<<"0">>)>>

----------------------------------------------------------------------------
(* C2: tokenize_markup emits the text behind the last bracket group as a   *)
(* final plain token; a non-empty text without any bracket group gives     *)
(* exactly one plain token, the whole text, and markup_to_ansi returns     *)
(* that text followed by the reset.                                        *)
C2_TrailingPlain ==
    /\ MarkupTokenized /\ cursor < Len(text) =>
          tokens # <<>> /\ Proj(tokens)[Len(tokens)] = PlainOf(SliceFrom(text, cursor))
    /\ op = "markup_to_ansi" /\ chain = 1 /\ pc # "scan"
       /\ input # <<>> /\ NextTag(input, 0) = None =>
          /\ err = "none"
          /\ Proj(tokens) = <<PlainOf(input)>>
          /\ pc = "returned" => out = input \o <<ESC, "[", "0", "m">>

----------------------------------------------------------------------------
(* C3: when markup_to_ansi returns, its result ends with ESC[0m, and       *)
(* appending the reset if it is missing a second time changes nothing.     *)
C3_EndsWithReset ==
    op = "markup_to_ansi" /\ pc = "returned" =>
        /\ endswith(out, <<ESC, "[", "0", "m">>)
        /\ append_reset(out) = out

\* the reset was appended to "[bold]hi"
C3_Witness ==
    /\ op = "markup_to_ansi" /\ pc = "returned"
    /\ input = <<"[", "b", "o", "l", "d", "]", "h", "i">>
    /\ out = <<ESC, "[", "1", "m", "h", "i", ESC, "[", "0", "m">>

----------------------------------------------------------------------------
(* C4: markup_to_ansi and ansi_to_markup return, or fail with SyntaxError; *)
(* no input makes them fail with any other error.                          *)
C4_OnlySyntaxError == pc = "raised" => err = "SyntaxError"

----------------------------------------------------------------------------
(* C5: tokenize_ansi drops a matched SGR sequence exactly when the token   *)
(* emitted immediately before it is a code token with the same parameter   *)
(* string; so the stream never holds two adjacent code tokens with equal   *)
(* codes.                                                                  *)
C5_Dedup ==
    [][ op = "ansi_to_markup" /\ pc = "scan" /\ NextAnsi(text, cursor) # None
        /\ Get(NextAnsi(text, cursor)).sgr # None =>
            LET sgr == Get(NextAnsi(text, cursor)).sgr
                n == Len(tokens')
                emitted == n > Len(tokens) /\ tokens'[n].code = sgr /\ tokens'[n].plain = None
                before == IF emitted THEN SubSeq(tokens', 1, n - 1) ELSE tokens'
                same == before # <<>> /\ before[Len(before)].code = sgr
            IN  /\ emitted <=> ~ same
                /\ NoAdjacentEqualCodes(tokens') ]_vars

\* "ESC[1m ESC[1m hello": the second sequence was dropped
C5_Witness ==
    /\ op = "ansi_to_markup" /\ pc = "fold"
    /\ input = <<ESC, "[", "1", "m", ESC, "[", "1", "m", "h", "e", "l", "l", "o">>
    /\ Proj(tokens) = <<CodeOf(<<"1">>), PlainOf(<<"h", "e", "l", "l", "o">>), CodeOf(<<"0">>)>>

----------------------------------------------------------------------------
(* C6: the markup tokenizer yields a tag token only if it differs from the *)
(* token yielded before it; "[bold bold bold]hello" gives one bold code    *)
(* token and the plain token hello.                                        *)
C6_MarkupDedup ==
    MarkupTokenized =>
        /\ NoAdjacentEqualCodes(tokens)
        /\ input = <<"[", "b", "o", "l", "d", " ", "b", "o", "l", "d", " ", "b", "o", "l", "d", "]",
                     "h", "e", "l", "l", "o">> =>
              Proj(tokens) = <<CodeOf(<<"1">>), PlainOf(<<"h", "e", "l", "l", "o">>)>>

----------------------------------------------------------------------------
(* C7: a bracket group behind an odd number n of backslashes gives         *)
(* floor(n/2) literal backslashes as plain text, then the bracket group    *)
(* itself as plain text, and no code token; "\[bold]hi" gives "[bold]"     *)
(* and "hi".  (Stated for a text that begins with such a group.)           *)
C7_EscapedGroup ==
    MarkupTokenized /\ NextTag(input, 0) # None =>
        LET m == Get(NextTag(input, 0))
            kept == IF m.escapes \div 2 > 0
                    THEN <<PlainOf(Backslashes(m.escapes \div 2))>> ELSE <<>>
            literal == <<PlainOf(Slice(input, m.start + m.escapes, m.end))>>
        IN  m.start = 0 /\ m.escapes % 2 = 1 =>
                /\ Len(tokens) >= Len(kept) + 1
                /\ SubSeq(Proj(tokens), 1, Len(kept) + 1) = kept \o literal
                /\ input = <<"\\", "[", "b", "o", "l", "d", "]", "h", "i">> =>
                      Proj(tokens) = <<PlainOf(<<"[", "b", "o", "l", "d", "]">>),
                                       PlainOf(<<"h", "i">>)>>

----------------------------------------------------------------------------
(* C8, as amended: for every tag _handle_color accepts, the payload is     *)
(* "48;" if the tag starts with @, else "38;", then the selector, then the *)
(* fields (the tag less that one @; for a hex tag its r;g;b), and          *)
(* is_background is true exactly for the @ form; the selector is "5;"      *)
(* exactly when the tag less the @ is not hex-prefixed and holds fewer     *)
(* than two ";" (fewer than three fields), and "2;" otherwise.             *)
Accepted == op = "_handle_color" /\ pc = "returned" /\ result.err = "none" /\ result.val # None

AtForm == startswith(tag, <<"@">>)

TagBody == IF AtForm THEN Tail(tag) ELSE tag

HexForm == startswith(TagBody, <<"#">>)

PayloadFields ==
    IF HexForm
    THEN join(<<";">>, [i \in 1..3 |-> str(translate_hex(TagBody)[i])])
    ELSE TagBody

PayloadWith(selector) ==
    (IF AtForm THEN <<"4", "8", ";">> ELSE <<"3", "8", ";">>) \o selector \o PayloadFields

C8_PayloadFewerThanTwoSeparators ==
    Accepted =>
        /\ Get(result.val)[2] = AtForm
        /\ Get(result.val)[1] =
              PayloadWith(IF ~ HexForm /\ count(TagBody, ";") < 2
                          THEN <<"5", ";">> ELSE <<"2", ";">>)
        /\ tag = <<"1", "4", "1">> => Get(result.val)[1] = <<"3", "8", ";", "5", ";", "1", "4", "1">>
        /\ tag = <<"@", "1", "4", "1">> =>
              Get(result.val) = <<<<"4", "8", ";", "5", ";", "1", "4", "1">>, TRUE>>
        /\ tag = <<"6", "0", ";", "1", "0", "0", ";", "2", "0", "0">> =>
              Get(result.val)[1] = <<"3", "8", ";", "2", ";", "6", "0", ";", "1", "0", "0", ";", "2", "0", "0">>

\* a tag of two fields keeps the 8-bit selector
C8_Witness ==
    /\ Accepted
    /\ tag = <<"1", "4", "1", ";", "6", "0">>
    /\ Get(result.val) = <<<<"3", "8", ";", "5", ";", "1", "4", "1", ";", "6", "0">>, FALSE>>

(* C8, as the claim words it: the selector is "5;" exactly when the tag    *)
(* less the @ is not hex-prefixed and has fewer than two ;-separated       *)
(* fields.                                                                 *)
C8_PayloadFewerThanTwoFields ==
    Accepted =>
        /\ Get(result.val)[2] = AtForm
        /\ Get(result.val)[1] =
              PayloadWith(IF ~ HexForm /\ Len(split(TagBody, ";")) < 2
                          THEN <<"5", ";">> ELSE <<"2", ";">>)

----------------------------------------------------------------------------
(* C9: the [start, end) spans of the tokens tokenize_markup yields         *)
(* partition the source: a plain token's span is where its text stands,    *)
(* and every character is covered by exactly one plain token or lies in    *)
(* exactly one tag token's span.                                           *)
Covers(t, i) == t.start <= i /\ i < t.end

C9_SpansPartition ==
    MarkupTokenized =>
        /\ \A k \in 1..Len(tokens) :
              tokens[k].plain # None =>
                  /\ 0 <= tokens[k].start /\ tokens[k].start <= tokens[k].end
                  /\ tokens[k].end <= Len(text)
                  /\ Slice(text, tokens[k].start, tokens[k].end) = Get(tokens[k].plain)
        /\ \A i \in 0..(Len(text) - 1) :
              LET plains == {k \in 1..Len(tokens) : tokens[k].plain # None /\ Covers(tokens[k], i)}
                  tags == {<<tokens[k].start, tokens[k].end>> :
                              k \in {j \in 1..Len(tokens) : tokens[j].code # None /\ Covers(tokens[j], i)}}
              IN  \/ Cardinality(plains) = 1 /\ tags = {}
                  \/ plains = {} /\ Cardinality(tags) = 1

----------------------------------------------------------------------------
(* C10: every token of tokenize_markup and tokenize_ansi has exactly one   *)
(* of plain and code set, so the assertions of to_name and to_sequence     *)
(* never fail.                                                             *)
C10_ExactlyOneSet ==
    /\ \A k \in 1..Len(tokens) : (tokens[k].plain = None) # (tokens[k].code = None)
    /\ err # "AssertionError"

====
